---- MODULE Spec2Model ----
(***************************************************************************)
(* The SMS webhook of src/main.py: handle_sms authenticates an inbound     *)
(* Twilio webhook call, acknowledges it and queues one background unit     *)
(* (process_message_and_respond) that asks the completion service for an   *)
(* answer and sends it back through the messaging service.                 *)
(*                                                                         *)
(* Texts are sequences of string chunks, so that concatenation, stripping  *)
(* and "occurs in" are computed rather than assumed.                       *)
(***************************************************************************)
EXTENDS Naturals, Sequences, FiniteSets

\* Number of webhook calls the host serves in one behaviour.
NumRequests == 2

Requests == 1..NumRequests

----------------------------------------------------------------------------
\* Inputs

\* The form fields From, To, Body of the inbound webhook calls.
InboundMessages ==
    { [From |-> "+15550001", To |-> "+15559998", Body |-> <<"q1">>],
      [From |-> "+15550002", To |-> "+15559999", Body |-> <<"q2">>] }

\* The states of context.txt: absent, present but failing to read, or
\* present with text that has whitespace around it.
ContextFiles ==
    { [exists |-> FALSE, readable |-> FALSE, text |-> <<>>],
      [exists |-> TRUE,  readable |-> FALSE, text |-> <<"k">>],
      [exists |-> TRUE,  readable |-> TRUE,  text |-> <<" ", "k", "\n">>] }

\* What claude...messages.create can return as message.content: a list of
\* text blocks, possibly empty.
CompletionContents == { <<>>, <<"answer", "more">> }

NoRequest == [From |-> "", To |-> "", Body |-> <<>>, SignatureOk |-> FALSE]
NoTask == [from_number |-> "", to_number |-> "", message_body |-> <<>>]
NoResponse == [status |-> 0, body |-> <<>>]

----------------------------------------------------------------------------
\* Pure functions of src/main.py

IsSpace(c) == c \in {" ", "\n", "\t"}

RECURSIVE LStrip(_)
LStrip(s) == IF s # <<>> /\ IsSpace(Head(s)) THEN LStrip(Tail(s)) ELSE s

RECURSIVE RStrip(_)
RStrip(s) ==
    IF s # <<>> /\ IsSpace(s[Len(s)]) THEN RStrip(SubSeq(s, 1, Len(s) - 1)) ELSE s

\* str.strip()
Strip(s) == RStrip(LStrip(s))

\* A wrong load_context: hands back the warning instead of empty text.
load_context_warning(file) ==
    IF file.exists /\ file.readable
    THEN Strip(file.text)
    ELSE <<"Warning: context.txt file not found">>

\* load_context(): the stripped file text; empty text when the file is
\* absent or reading it raises.
load_context(file) ==
    IF file.exists /\ file.readable THEN Strip(file.text) ELSE <<>>

\* The line load_context prints, if any.
load_context_log(file) ==
    IF ~file.exists THEN <<"Warning: context.txt file not found">>
    ELSE IF ~file.readable THEN <<"Error loading context.txt">>
    ELSE <<>>

PromptHead ==
    << "Please answer the following question using the context provided below.\n",
       "The question may or may not be in English. If the question is not in English, write your response in the language of the question.\n",
       "\n",
       "Question:\n" >>

PromptTail ==
    << "\n\n",
       "Answer the question specifically referencing relevant information from the context, which is rules and information on the CalFresh program. \n",
       "It's very important that you keep your response concise and suitable for SMS with no more than 100 words.\n",
       "If the question cannot be answered using the context, inform the user that you don't have the information to answer their question." >>

\* generate_prompt(message)
generate_prompt(message) == PromptHead \o message \o PromptTail

SystemInstruction ==
    "You are an SMS chatbot. It is very important that you keep responses concise and under 640 characters to fit in SMS messages."

\* The keyword arguments of claude.beta.prompt_caching.messages.create.
completion_request(prompt, context) ==
    [ model      |-> "claude-3-5-sonnet-20241022",
      max_tokens |-> 1024,
      messages   |-> << [role |-> "user", content |-> prompt] >>,
      system     |-> << [type |-> "text", text |-> <<SystemInstruction>>, cache |-> FALSE],
                        [type |-> "text", text |-> context, cache |-> TRUE] >> ]

error_message ==
    <<"Sorry, I'm having trouble processing your message. Please try again in a moment.">>

\* A wrong reply send: the identifiers are not swapped.
reply_send_unswapped(task, text) ==
    [body |-> text, from_ |-> task.from_number, to |-> task.to_number]

\* twilio_client.messages.create(body=response, from_=to_number, to=from_number)
reply_send(task, text) ==
    [body |-> text, from_ |-> task.to_number, to |-> task.from_number]

\* A wrong apology send: the identifiers are not swapped.
apology_send_unswapped(task) ==
    [body |-> error_message, from_ |-> task.from_number, to |-> task.to_number]

\* twilio_client.messages.create(body=error_message, from_=to_number, to=from_number)
apology_send(task) ==
    [body |-> error_message, from_ |-> task.to_number, to |-> task.from_number]

\* A wrong add_task: the unit gets the identifiers the wrong way round.
add_task_crossed(req) ==
    [from_number |-> req.To, to_number |-> req.From, message_body |-> req.Body]

\* background_tasks.add_task(process_message_and_respond, from_number=From,
\* to_number=To, message_body=Body)
add_task(req) ==
    [from_number |-> req.From, to_number |-> req.To, message_body |-> req.Body]

\* verify_twilio_request: the validator's verdict on the request's URL, form
\* fields and X-Twilio-Signature header.
verify_twilio_request(req) == req.SignatureOk

\* A handler that forgets the signature check.
after_verify_unchecked(ok) == "Authenticated"

\* if not await verify_twilio_request(request): return 403
after_verify(ok) == IF ok THEN "Authenticated" ELSE "Rejected"

\* PlainTextResponse("Invalid request", status_code=403)
InvalidRequestResponse == [status |-> 403, body |-> <<"Invalid request">>]

\* An acknowledgment that carries text.
ack_with_text == [status |-> 200, body |-> <<"Message received">>]

\* PlainTextResponse("")
AckResponse == [status |-> 200, body |-> <<>>]

\* A reply send whose failure is swallowed without the fallback.
after_reply_no_fallback(delivered) ==
    IF delivered THEN "Completed" ELSE "FailedSilently"

\* The reply send is inside the try: its failure enters the except clause.
after_reply(delivered) == IF delivered THEN "Completed" ELSE "Failing"

\* An apology send whose outcome is not looked at.
after_apology_unchecked(delivered) == "FailedWithFallback"

\* An apology send that is tried again when it fails.
after_apology_retry(delivered) ==
    IF delivered THEN "FailedWithFallback" ELSE "Failing"

\* The apology send has its own try/except: its failure is printed only.
after_apology(delivered) ==
    IF delivered THEN "FailedWithFallback" ELSE "FailedSilently"

----------------------------------------------------------------------------
\* State

VARIABLES
    contextFile,  \* context.txt on disk
    pc,           \* where each request is in handle_sms / its background unit
    request,      \* the inbound webhook call
    response,     \* the HTTP response returned to the caller
    task,         \* the arguments the background unit was queued with
    context,      \* the unit's local `context`
    prompt,       \* the unit's local `prompt`
    message,      \* the unit's local `message.content`
    reply,        \* the unit's local `response`
    claudeCalls,  \* the completion requests each unit made, with their outcome
    twilioCalls,  \* the messaging sends each unit made, with their outcome
    stdout        \* the lines each unit printed

vars == << contextFile, pc, request, response, task, context, prompt, message,
           reply, claudeCalls, twilioCalls, stdout >>

Terminal == {"Completed", "FailedWithFallback", "FailedSilently"}

InUnit == {"Dispatched", "Prompted", "Generated", "Responding", "Failing"} \cup Terminal

Init ==
    /\ contextFile \in ContextFiles
    /\ pc = [r \in Requests |-> "Idle"]
    /\ request = [r \in Requests |-> NoRequest]
    /\ response = [r \in Requests |-> NoResponse]
    /\ task = [r \in Requests |-> NoTask]
    /\ context = [r \in Requests |-> <<>>]
    /\ prompt = [r \in Requests |-> <<>>]
    /\ message = [r \in Requests |-> <<>>]
    /\ reply = [r \in Requests |-> <<>>]
    /\ claudeCalls = [r \in Requests |-> <<>>]
    /\ twilioCalls = [r \in Requests |-> <<>>]
    /\ stdout = [r \in Requests |-> <<>>]

----------------------------------------------------------------------------
\* handle_sms

\* The host hands the r-th webhook call to handle_sms.
ReceiveSms(r) ==
    /\ pc[r] = "Idle"
    /\ r > 1 => pc[r - 1] # "Idle"
    /\ \E m \in InboundMessages, ok \in BOOLEAN :
         request' = [request EXCEPT ![r] =
                        [From |-> m.From, To |-> m.To, Body |-> m.Body,
                         SignatureOk |-> ok]]
    /\ pc' = [pc EXCEPT ![r] = "Received"]
    /\ UNCHANGED << contextFile, response, task, context, prompt, message,
                    reply, claudeCalls, twilioCalls, stdout >>

\* The signature check and the 403 it returns.
VerifyRequest(r) ==
    /\ pc[r] = "Received"
    /\ LET next == after_verify(verify_twilio_request(request[r])) IN
         /\ pc' = [pc EXCEPT ![r] = next]
         /\ response' = IF next = "Rejected"
                        THEN [response EXCEPT ![r] = InvalidRequestResponse]
                        ELSE response
    /\ UNCHANGED << contextFile, request, task, context, prompt, message,
                    reply, claudeCalls, twilioCalls, stdout >>

\* The unit is queued and the empty acknowledgment returned.
Dispatch(r) ==
    /\ pc[r] = "Authenticated"
    /\ task' = [task EXCEPT ![r] = add_task(request[r])]
    /\ response' = [response EXCEPT ![r] = AckResponse]
    /\ pc' = [pc EXCEPT ![r] = "Dispatched"]
    /\ UNCHANGED << contextFile, request, context, prompt, message, reply,
                    claudeCalls, twilioCalls, stdout >>

----------------------------------------------------------------------------
\* process_message_and_respond

\* context = load_context(); prompt = generate_prompt(message_body)
BuildPrompt(r) ==
    /\ pc[r] = "Dispatched"
    /\ context' = [context EXCEPT ![r] = load_context(contextFile)]
    /\ prompt' = [prompt EXCEPT ![r] = generate_prompt(task[r].message_body)]
    /\ stdout' = [stdout EXCEPT ![r] = @ \o load_context_log(contextFile)]
    /\ pc' = [pc EXCEPT ![r] = "Prompted"]
    /\ UNCHANGED << contextFile, request, response, task, message, reply,
                    claudeCalls, twilioCalls >>

\* The completion call returns a message.
CompletionReturns(r) ==
    /\ pc[r] = "Prompted"
    /\ claudeCalls' = [claudeCalls EXCEPT ![r] =
                          Append(@, [req    |-> completion_request(prompt[r], context[r]),
                                     raised |-> FALSE])]
    /\ \E c \in CompletionContents : message' = [message EXCEPT ![r] = c]
    /\ pc' = [pc EXCEPT ![r] = "Generated"]
    /\ UNCHANGED << contextFile, request, response, task, context, prompt,
                    reply, twilioCalls, stdout >>

\* The completion call raises.
CompletionRaises(r) ==
    /\ pc[r] = "Prompted"
    /\ claudeCalls' = [claudeCalls EXCEPT ![r] =
                          Append(@, [req    |-> completion_request(prompt[r], context[r]),
                                     raised |-> TRUE])]
    /\ stdout' = [stdout EXCEPT ![r] = Append(@, "Error in background task")]
    /\ pc' = [pc EXCEPT ![r] = "Failing"]
    /\ UNCHANGED << contextFile, request, response, task, context, prompt,
                    message, reply, twilioCalls >>

\* response = message.content[0].text, which raises on an empty content list.
ExtractResponse(r) ==
    /\ pc[r] = "Generated"
    /\ IF message[r] = <<>>
       THEN /\ stdout' = [stdout EXCEPT ![r] = Append(@, "Error in background task")]
            /\ pc' = [pc EXCEPT ![r] = "Failing"]
            /\ UNCHANGED reply
       ELSE /\ reply' = [reply EXCEPT ![r] = <<Head(message[r])>>]
            /\ stdout' = [stdout EXCEPT ![r] = Append(@, "Claude processing time")]
            /\ pc' = [pc EXCEPT ![r] = "Responding"]
    /\ UNCHANGED << contextFile, request, response, task, context, prompt,
                    message, claudeCalls, twilioCalls >>

\* The reply is sent through the messaging service, which delivers or raises.
SendReply(r) ==
    /\ pc[r] = "Responding"
    /\ \E delivered \in BOOLEAN :
         /\ twilioCalls' = [twilioCalls EXCEPT ![r] =
                               Append(@, [msg |-> reply_send(task[r], reply[r]),
                                          delivered |-> delivered])]
         /\ pc' = [pc EXCEPT ![r] = after_reply(delivered)]
         /\ stdout' = IF delivered THEN stdout
                      ELSE [stdout EXCEPT ![r] = Append(@, "Error in background task")]
    /\ UNCHANGED << contextFile, request, response, task, context, prompt,
                    message, reply, claudeCalls >>

\* The except clause: one apology send, whose own failure is printed.
SendApology(r) ==
    /\ pc[r] = "Failing"
    /\ \E delivered \in BOOLEAN :
         /\ twilioCalls' = [twilioCalls EXCEPT ![r] =
                               Append(@, [msg |-> apology_send(task[r]),
                                          delivered |-> delivered])]
         /\ pc' = [pc EXCEPT ![r] = after_apology(delivered)]
         /\ stdout' = IF delivered THEN stdout
                      ELSE [stdout EXCEPT ![r] = Append(@, "Error sending error message")]
    /\ UNCHANGED << contextFile, request, response, task, context, prompt,
                    message, reply, claudeCalls >>

UnitStep(r) ==
    \/ BuildPrompt(r)
    \/ CompletionReturns(r)
    \/ CompletionRaises(r)
    \/ ExtractResponse(r)
    \/ SendReply(r)
    \/ SendApology(r)

HandlerStep(r) ==
    \/ VerifyRequest(r)
    \/ Dispatch(r)

Next ==
    \E r \in Requests :
        \/ ReceiveSms(r)
        \/ VerifyRequest(r)
        \/ Dispatch(r)
        \/ BuildPrompt(r)
        \/ CompletionReturns(r)
        \/ CompletionRaises(r)
        \/ ExtractResponse(r)
        \/ SendReply(r)
        \/ SendApology(r)

Spec == Init /\ [][Next]_vars

\* The event loop runs a started handler to its response and then its
\* background unit; every service call returns or raises.
FairSpec ==
    Spec /\ \A r \in Requests : WF_vars(HandlerStep(r)) /\ WF_vars(UnitStep(r))

----------------------------------------------------------------------------
\* Observations used by the properties

\* The unit's completion call has been made and raised.
CompletionFailed(r) == claudeCalls[r] # <<>> /\ claudeCalls[r][1].raised

\* The unit's completion call has been made and returned a message.
CompletionSucceeded(r) == claudeCalls[r] # <<>> /\ ~claudeCalls[r][1].raised

ApologyText ==
    <<"Sorry, I'm having trouble processing your message. Please try again in a moment.">>

IsApology(c) == c.msg.body = ApologyText

\* The first messaging send of the unit was the reply and it was delivered.
ReplyDelivered(r) ==
    /\ twilioCalls[r] # <<>>
    /\ ~IsApology(twilioCalls[r][1])
    /\ twilioCalls[r][1].delivered

\* The first messaging send of the unit was the reply and it raised.
ReplyFailed(r) ==
    /\ twilioCalls[r] # <<>>
    /\ ~IsApology(twilioCalls[r][1])
    /\ ~twilioCalls[r][1].delivered

\* The message the completion service returned had no content block to read.
ExtractFailed(r) ==
    /\ CompletionSucceeded(r)
    /\ message[r] = <<>>
    /\ pc[r] # "Generated"

\* The messaging sends of the unit that carry the apology.
ApologyIndexes(r) == { i \in DOMAIN twilioCalls[r] : IsApology(twilioCalls[r][i]) }

\* s occurs in t as a contiguous run.
Contains(t, s) ==
    \E i \in 0..(Len(t) - Len(s)) : SubSeq(t, i + 1, i + Len(s)) = s

----------------------------------------------------------------------------
\* C1: a request whose signature the validator rejects is answered with
\* HTTP 403 "Invalid request"; no background unit is queued for it and
\* neither the completion service nor the messaging service is called for it.
C1_InvalidSignatureRejected ==
    \A r \in Requests :
        (pc[r] # "Idle" /\ ~request[r].SignatureOk) =>
            /\ pc[r] \in {"Received", "Rejected"}
            /\ pc[r] = "Received" => response[r] = NoResponse
            /\ pc[r] = "Rejected" =>
                   /\ response[r].status = 403
                   /\ response[r].body = <<"Invalid request">>
            /\ task[r] = NoTask
            /\ claudeCalls[r] = <<>>
            /\ twilioCalls[r] = <<>>

\* A rejected request next to one whose unit did call both services.
C1_Witness ==
    \E r, s \in Requests :
        /\ pc[r] = "Rejected"
        /\ ~request[r].SignatureOk
        /\ pc[s] = "Completed"

\* C2: every request with a valid signature is answered with HTTP 200 and an
\* empty body as soon as its unit is queued, before the unit has done
\* anything, and the response is that same one in every later state of the
\* unit, whatever the services did.
C2_AckIndependentOfUnit ==
    \A r \in Requests :
        /\ (request[r].SignatureOk /\ pc[r] \notin {"Idle", "Received", "Authenticated"}) =>
               /\ pc[r] \in InUnit
               /\ response[r].status = 200
               /\ response[r].body = <<>>
        /\ (request[r].SignatureOk /\ pc[r] \in {"Received", "Authenticated"}) =>
               /\ response[r] = NoResponse
               /\ claudeCalls[r] = <<>>
               /\ twilioCalls[r] = <<>>

\* One acknowledged request whose unit has not started, next to one whose
\* unit failed twice.
C2_Witness ==
    \E r, s \in Requests :
        /\ pc[r] = "Dispatched"
        /\ response[r].status = 200
        /\ claudeCalls[r] = <<>>
        /\ pc[s] = "FailedSilently"
        /\ response[s].status = 200

\* C3: when the completion call raises, the unit calls the messaging service
\* exactly once, with the fixed apology text, from the request's To number to
\* the request's From number.
C3_ApologyOnCompletionError ==
    \A r \in Requests :
        CompletionFailed(r) =>
            \/ pc[r] = "Failing" /\ twilioCalls[r] = <<>>
            \/ /\ pc[r] \in {"FailedWithFallback", "FailedSilently"}
               /\ Len(twilioCalls[r]) = 1
               /\ twilioCalls[r][1].msg =
                      [body |-> ApologyText, from_ |-> request[r].To, to |-> request[r].From]

C3_Witness ==
    \E r \in Requests :
        /\ CompletionFailed(r)
        /\ pc[r] = "FailedWithFallback"
        /\ Len(twilioCalls[r]) = 1

\* C4: when the completion call returns and the reply is delivered, the unit
\* has made exactly one messaging send: its body is the first content block
\* the completion service returned, it goes from the request's To number to
\* the request's From number, and no apology is sent.
C4_ReplyOnSuccess ==
    \A r \in Requests :
        (CompletionSucceeded(r) /\ ReplyDelivered(r)) =>
            /\ pc[r] = "Completed"
            /\ Len(claudeCalls[r]) = 1
            /\ Len(twilioCalls[r]) = 1
            /\ twilioCalls[r][1].msg =
                   [body |-> <<message[r][1]>>, from_ |-> request[r].To, to |-> request[r].From]
            /\ ApologyIndexes(r) = {}

C4_Witness ==
    \E r \in Requests :
        /\ CompletionSucceeded(r)
        /\ ReplyDelivered(r)
        /\ message[r] = <<"answer", "more">>
        /\ twilioCalls[r][1].msg.body = <<"answer">>
        /\ pc[r] = "Completed"

\* C5 as stated: a unit calls the completion service at most once and the
\* messaging service at most once, and a messaging send that fails is never
\* followed by another messaging send.
C5_AtMostOneSend ==
    \A r \in Requests :
        /\ Len(claudeCalls[r]) <= 1
        /\ Len(twilioCalls[r]) <= 1
        /\ \A i \in DOMAIN twilioCalls[r] :
               ~twilioCalls[r][i].delivered => i = Len(twilioCalls[r])

\* C5: a unit calls the completion service at most once, sends the reply at
\* most once and the apology at most once; no send is repeated; the only
\* send that can follow a failed send is the one apology after a failed
\* reply; a failed apology send is the unit's last call.
C5_NoRetries ==
    \A r \in Requests :
        /\ Len(claudeCalls[r]) <= 1
        /\ Len(twilioCalls[r]) <= 2
        /\ Cardinality(ApologyIndexes(r)) <= 1
        /\ Cardinality(DOMAIN twilioCalls[r] \ ApologyIndexes(r)) <= 1
        /\ Len(twilioCalls[r]) = 2 =>
               /\ ReplyFailed(r)
               /\ IsApology(twilioCalls[r][2])
        /\ \A i \in ApologyIndexes(r) :
               ~twilioCalls[r][i].delivered =>
                   /\ i = Len(twilioCalls[r])
                   /\ pc[r] = "FailedSilently"

\* The reply send raised, and so did the apology send after it.
C5_Witness ==
    \E r \in Requests :
        /\ Len(twilioCalls[r]) = 2
        /\ ReplyFailed(r)
        /\ ~twilioCalls[r][2].delivered
        /\ pc[r] = "FailedSilently"

\* C6: whichever step of the unit fails (the completion call, reading the
\* returned content, the reply send), exactly one apology send is attempted;
\* when that send fails too the unit ends in FailedSilently having printed
\* the error, with no send after it, and the HTTP 200 acknowledgment stands.
C6_OneBestEffortFallback ==
    \A r \in Requests :
        (CompletionFailed(r) \/ ExtractFailed(r) \/ ReplyFailed(r)) =>
            \/ /\ pc[r] = "Failing"
               /\ ApologyIndexes(r) = {}
            \/ /\ pc[r] \in {"FailedWithFallback", "FailedSilently"}
               /\ ApologyIndexes(r) = {Len(twilioCalls[r])}
               /\ pc[r] = "FailedSilently" <=> ~twilioCalls[r][Len(twilioCalls[r])].delivered
               /\ pc[r] = "FailedSilently" =>
                      stdout[r][Len(stdout[r])] = "Error sending error message"
               /\ response[r].status = 200
               /\ response[r].body = <<>>

\* Each of the three failing steps, followed by a failed apology send, is
\* reached by some unit; this one is the failed reply send.
C6_Witness ==
    \E r, s \in Requests :
        /\ ReplyFailed(r)
        /\ pc[r] = "FailedSilently"
        /\ ExtractFailed(s)
        /\ pc[s] = "FailedWithFallback"

\* C7: when context.txt is absent or cannot be read, the unit goes on with
\* empty knowledge text: it calls the completion service with an empty
\* knowledge segment, and when that call returns and the reply is delivered
\* the unit has sent the generated reply and no apology.
C7_MissingContextTolerated ==
    (~contextFile.exists \/ ~contextFile.readable) =>
        \A r \in Requests :
            /\ pc[r] \in (InUnit \ {"Dispatched"}) =>
                   /\ context[r] = <<>>
                   /\ stdout[r] # <<>>
                   /\ stdout[r][1] \in {"Warning: context.txt file not found",
                                        "Error loading context.txt"}
            /\ pc[r] \in (InUnit \ {"Dispatched", "Prompted"}) =>
                   /\ Len(claudeCalls[r]) = 1
                   /\ claudeCalls[r][1].req.system[2].text = <<>>
            /\ pc[r] = "Prompted" => twilioCalls[r] = <<>>
            /\ (CompletionSucceeded(r) /\ ReplyDelivered(r)) =>
                   /\ pc[r] = "Completed"
                   /\ twilioCalls[r] = << [msg |-> [body |-> <<message[r][1]>>,
                                                    from_ |-> request[r].To,
                                                    to |-> request[r].From],
                                           delivered |-> TRUE] >>

C7_Witness ==
    \E r \in Requests :
        /\ contextFile.exists
        /\ ~contextFile.readable
        /\ pc[r] = "Completed"
        /\ claudeCalls[r][1].req.system[2].text = <<>>

\* C8 as stated: the prompt sent for a request embeds the knowledge text
\* together with the question: non-empty knowledge text occurs verbatim in
\* the prompt, and the prompt is never the bare question.
C8_PromptEmbedsKnowledge ==
    \A r \in Requests :
        \A i \in DOMAIN claudeCalls[r] :
            LET p == claudeCalls[r][i].req.messages[1].content IN
                /\ Contains(p, request[r].Body)
                /\ p # request[r].Body
                /\ context[r] # <<>> => Contains(p, context[r])

----------------------------------------------------------------------------
\* The request's state in the deferred-mode state machine: the steps inside
\* the background unit all lie between Dispatched and the terminal states.
Stage(r) ==
    IF pc[r] \in {"Prompted", "Generated", "Responding", "Failing"}
    THEN "Dispatched"
    ELSE pc[r]

StageMoves ==
    { <<"Idle", "Received">>,
      <<"Received", "Authenticated">>,
      <<"Received", "Rejected">>,
      <<"Authenticated", "Dispatched">>,
      <<"Dispatched", "Completed">>,
      <<"Dispatched", "FailedWithFallback">>,
      <<"Dispatched", "FailedSilently">> }

\* What each terminal state says about the unit's sends.
StageMeaning ==
    \A r \in Requests :
        /\ pc[r] = "Completed" <=> ReplyDelivered(r)
        /\ pc[r] = "FailedWithFallback" <=>
               \E i \in ApologyIndexes(r) : twilioCalls[r][i].delivered
        /\ pc[r] = "FailedSilently" <=>
               \E i \in ApologyIndexes(r) : ~twilioCalls[r][i].delivered
        /\ pc[r] \in {"FailedWithFallback", "FailedSilently"} =>
               (CompletionFailed(r) \/ ExtractFailed(r) \/ ReplyFailed(r))
        /\ pc[r] = "Rejected" => ~request[r].SignatureOk
        /\ Stage(r) \in {"Authenticated", "Dispatched"} \cup Terminal =>
               request[r].SignatureOk

\* A request that has arrived and has not yet come to rest.
InProgress(r) == pc[r] \notin ({"Idle", "Rejected"} \cup Terminal)

\* C9: a request moves Received -> Authenticated -> Dispatched or
\* Received -> Rejected; Rejected and the three terminal states are never
\* left; each terminal state means what its name says (Completed: reply
\* delivered; FailedWithFallback: a step failed, apology delivered;
\* FailedSilently: a step failed, apology send failed); and, since every
\* service call returns or raises, every request that has arrived comes to
\* rest in Rejected or in one of the terminal states: from some point on no
\* request is in progress.
C9_StateMachine ==
    /\ [][\A r \in Requests :
             Stage(r)' # Stage(r) => <<Stage(r), Stage(r)'>> \in StageMoves]_vars
    /\ []StageMeaning
    /\ <>[](\A r \in Requests : ~InProgress(r))

\* The three terminal states and Rejected are all reached.
C9_Witness ==
    \E r, s \in Requests :
        /\ pc[r] = "FailedWithFallback"
        /\ ReplyFailed(r)
        /\ pc[s] = "FailedSilently"
        /\ CompletionFailed(s)

\* What belongs to one request and its unit.
UnitState(r) ==
    << pc[r], request[r], response[r], task[r], context[r], prompt[r],
       message[r], reply[r], claudeCalls[r], twilioCalls[r], stdout[r] >>

\* Every call of a unit is made with that unit's own request.
OwnCalls(r) ==
    /\ \A i \in DOMAIN twilioCalls[r] :
           /\ twilioCalls[r][i].msg.from_ = request[r].To
           /\ twilioCalls[r][i].msg.to = request[r].From
           /\ \/ IsApology(twilioCalls[r][i])
              \/ /\ CompletionSucceeded(r)
                 /\ message[r] # <<>>
                 /\ twilioCalls[r][i].msg.body = <<message[r][1]>>
    /\ \A i \in DOMAIN claudeCalls[r] :
           claudeCalls[r][i].req.messages[1].content =
               PromptHead \o request[r].Body \o PromptTail

\* C10: however the units of several requests interleave, each unit's
\* messaging sends use its own request's identifiers (from = To, to = From),
\* a reply carries the text the completion service returned to that unit for
\* its own question, and a step of one unit, failing or not, changes nothing
\* of another request.
C10_UnitsIsolated ==
    /\ [](\A r \in Requests : OwnCalls(r))
    /\ [][\A r, s \in Requests :
             (r # s /\ UnitState(r)' # UnitState(r)) => UnitState(s)' = UnitState(s)]_vars

\* Two units of different senders, one completed and one failed, both
\* having sent.
C10_Witness ==
    \E r, s \in Requests :
        /\ request[r].From # request[s].From
        /\ pc[r] = "Completed"
        /\ pc[s] = "FailedSilently"
        /\ ReplyFailed(s)
        /\ Len(twilioCalls[s]) = 2

====
